---- MODULE Spec2Model ----
(***************************************************************************)
(* Model of the ClickHouse query pipeline of local-mcp (package tools):     *)
(* isQuerySafe, parseClickHouseLimit, the LIMIT rewrite of executeQuery,    *)
(* formatQueryResults with createValueSlice / convertValuesToStrings, the   *)
(* three tool handlers (clickHouseQueryHandler, clickHouseSchemasHandler,   *)
(* clickHouseTablesHandler), and concurrent invocations of them.            *)
(*                                                                         *)
(* Text is modelled as a sequence of one-character strings, so that         *)
(* trimming, upper-casing, prefix and substring tests and decimal           *)
(* formatting are computed rather than assumed.                             *)
(***************************************************************************)
EXTENDS Integers, Sequences, FiniteSets, TLC

VARIABLES
    arch,        \* build target of the binary: decides int(float64) out of range
    pc,          \* position of the component / handler under study
    queryArg,    \* args["query"]: [kind |-> "absent" | "other" | "string", text]
    limitArg,    \* args["limit"]: a LimitArgs value
    haveConfig,  \* CLICKHOUSE_HOST is set (getClickHouseConfigFromEnv # nil)
    safe,        \* result of isQuerySafe, "none" before it ran
    limit,       \* result of parseClickHouseLimit, 0 before it ran
    relimit,     \* parseClickHouseLimit applied to float64(limit), 0 before
    submitted,   \* query text handed to conn.Query, <<>> before
    resubmitted, \* the rewrite applied to submitted, <<>> before
    cursor,      \* the driver.Rows the query produced (NoCursor before)
    rendered,    \* result of formatQueryResults: [ok, lines], NoRender before
    conn,        \* "none" | "open" | "closed"
    rowsState,   \* "none" | "open" | "closed"
    events,      \* driver calls made by the invocation, in order
    result,      \* the CallToolResult: [isError, text], NoResult before
    tool,        \* the tool invoked: its handler is the one that runs
    dbArgs,      \* [arg, env]: args["database"] and CLICKHOUSE_DATABASE
    valueSlice,  \* the decode targets createValueSlice returned, <<>> before
    stringSlice, \* the texts convertValuesToStrings returned, <<>> before
    calls,       \* concurrent invocations: call id -> its handler's state
    handles      \* the connection and the cursor the driver made in each call's Open and Query

vars == <<arch, pc, queryArg, limitArg, haveConfig, safe, limit, relimit,
          submitted, resubmitted, cursor, rendered, conn, rowsState, events,
          result, tool, dbArgs, valueSlice, stringSlice, calls, handles>>

\* The variables of the pipeline of one invocation.
pipelineVars == <<arch, pc, queryArg, limitArg, haveConfig, safe, limit, relimit,
                  submitted, resubmitted, cursor, rendered, conn, rowsState,
                  events, result, tool, dbArgs>>

\* The variables of the type dispatch on its own.
dispatchVars == <<valueSlice, stringSlice>>

\* The variables of concurrent invocations.
concurrentVars == <<calls, handles>>

----------------------------------------------------------------------------
(* Bounds of the model. *)

\* a query text is a concatenation of at most MaxFrags fragments
MaxFrags == 2
\* numeric limit arguments cover every tenth within LimitSpan of 0 and of the maximum
LimitSpan == 15
\* a cursor delivers at most MaxRows rows
MaxRows == 3

\* the largest number of columns of a result set given to createValueSlice
MaxCols == 2

\* the number of tool invocations that run concurrently
NumCalls == 2

----------------------------------------------------------------------------
(* Program constants. *)

defaultCHLimit == 100
maxCHLimit == 1000

----------------------------------------------------------------------------
(* strings: the parts of package strings the code uses. *)

LowerCase == <<"a","b","c","d","e","f","g","h","i","j","k","l","m",
               "n","o","p","q","r","s","t","u","v","w","x","y","z">>
UpperCase == <<"A","B","C","D","E","F","G","H","I","J","K","L","M",
               "N","O","P","Q","R","S","T","U","V","W","X","Y","Z">>

\* unicode.IsSpace restricted to the characters of the model
IsSpace(c) == c \in {" ", "\t", "\n", "\r"}

ToUpperChar(c) ==
    IF \E i \in 1..26 : LowerCase[i] = c
    THEN UpperCase[CHOOSE i \in 1..26 : LowerCase[i] = c]
    ELSE c

\* strings.ToUpper
ToUpper(s) == [i \in 1..Len(s) |-> ToUpperChar(s[i])]

RECURSIVE TrimLeft(_)
TrimLeft(s) ==
    IF s # <<>> /\ IsSpace(Head(s)) THEN TrimLeft(Tail(s)) ELSE s

RECURSIVE TrimRight(_)
TrimRight(s) ==
    IF s # <<>> /\ IsSpace(s[Len(s)])
    THEN TrimRight(SubSeq(s, 1, Len(s) - 1))
    ELSE s

\* strings.TrimSpace
TrimSpace(s) == TrimRight(TrimLeft(s))

\* strings.HasPrefix
HasPrefix(s, prefix) ==
    /\ Len(s) >= Len(prefix)
    /\ SubSeq(s, 1, Len(prefix)) = prefix

\* strings.Contains
Contains(s, substr) ==
    \E i \in 0..(Len(s) - Len(substr)) :
        SubSeq(s, i + 1, i + Len(substr)) = substr

RECURSIVE Join(_, _)
\* strings.Join
Join(elems, sep) ==
    IF elems = <<>> THEN <<>>
    ELSE IF Len(elems) = 1 THEN elems[1]
    ELSE elems[1] \o sep \o Join(Tail(elems), sep)

\* strings.Repeat
Repeat(c, n) == [i \in 1..n |-> c]

DigitChars == <<"0","1","2","3","4","5","6","7","8","9">>

RECURSIVE FormatNat(_)
FormatNat(n) ==
    IF n < 10 THEN <<DigitChars[n + 1]>>
    ELSE FormatNat(n \div 10) \o <<DigitChars[(n % 10) + 1]>>

\* fmt.Sprintf("%d", n)
FormatInt(n) == IF n < 0 THEN <<"-">> \o FormatNat(-n) ELSE FormatNat(n)

----------------------------------------------------------------------------
(* Literals of the source. *)

kwSELECT == <<"S","E","L","E","C","T">>
kwSHOW == <<"S","H","O","W">>
kwDESCRIBE == <<"D","E","S","C","R","I","B","E">>
kwLIMIT == <<"L","I","M","I","T">>
sepLIMIT == <<" ","L","I","M","I","T"," ">>

----------------------------------------------------------------------------
(* Safety classifier. *)

isQuerySafeContains(query) ==
    LET trimmedQuery == TrimSpace(ToUpper(query))
    IN  \/ Contains(trimmedQuery, kwSELECT)
        \/ Contains(trimmedQuery, kwSHOW)
        \/ Contains(trimmedQuery, kwDESCRIBE)

isQuerySafeNoTrim(query) ==
    LET trimmedQuery == ToUpper(query)
    IN  \/ HasPrefix(trimmedQuery, kwSELECT)
        \/ HasPrefix(trimmedQuery, kwSHOW)
        \/ HasPrefix(trimmedQuery, kwDESCRIBE)

isQuerySafe(query) ==
    LET trimmedQuery == TrimSpace(ToUpper(query))
    IN  \/ HasPrefix(trimmedQuery, kwSELECT)
        \/ HasPrefix(trimmedQuery, kwSHOW)
        \/ HasPrefix(trimmedQuery, kwDESCRIBE)

----------------------------------------------------------------------------
(* Limit resolver. *)

Archs == {"amd64", "arm64"}

\* Stand-ins for math.MinInt64 and math.MaxInt64: TLC's integers are
\* 32 bits wide, and the code only compares the converted value with 1 and
\* with maxCHLimit.
MinInt == -(2^30)
MaxInt == 2^30

\* The Go conversion int(l) of a float64.  A finite value (kind "float",
\* given in tenths) is truncated toward zero.  A value outside the range of
\* int (kind "beyond", tenths = its sign) has an implementation-dependent
\* result: amd64 yields the most negative int for either sign, arm64
\* saturates.
FloatToInt(l) ==
    IF l.kind = "float"
    THEN IF l.tenths >= 0 THEN l.tenths \div 10 ELSE -((-l.tenths) \div 10)
    ELSE IF arch = "amd64" THEN MinInt
    ELSE IF l.tenths > 0 THEN MaxInt ELSE MinInt

\* float64(n) for an int n within the model's range
IntToFloat(n) == [kind |-> "float", tenths |-> n * 10]

parseClickHouseLimitOffByOne(rawLimit) ==
    IF rawLimit.kind \in {"float", "beyond"}
    THEN LET l == FloatToInt(rawLimit) + 1
             atLeast == IF l < 1 THEN 1 ELSE l
         IN  IF atLeast > maxCHLimit THEN maxCHLimit ELSE atLeast
    ELSE defaultCHLimit

parseClickHouseLimit(rawLimit) ==
    IF rawLimit.kind \in {"float", "beyond"}
    THEN LET l == FloatToInt(rawLimit)
             atLeast == IF l < 1 THEN 1 ELSE l
         IN  IF atLeast > maxCHLimit THEN maxCHLimit ELSE atLeast
    ELSE defaultCHLimit

----------------------------------------------------------------------------
(* Query executor: the rewrite that precedes conn.Query. *)

rewriteQueryAlways(query, n) ==
    IF HasPrefix(TrimSpace(ToUpper(query)), kwSELECT)
    THEN query \o sepLIMIT \o FormatInt(n)
    ELSE query

rewriteQuery(query, n) ==
    IF /\ HasPrefix(TrimSpace(ToUpper(query)), kwSELECT)
       /\ ~Contains(ToUpper(query), kwLIMIT)
    THEN query \o sepLIMIT \o FormatInt(n)
    ELSE query

----------------------------------------------------------------------------
(* Result materializer. *)

\* The type tags createValueSlice names.
UnsignedTags == {"UInt8", "UInt16", "UInt32", "UInt64"}
SignedTags == {"Int8", "Int16", "Int32", "Int64"}
FloatTags == {"Float32", "Float64"}
StringTags == {"String", "FixedString"}
TimeTags == {"Date", "DateTime", "DateTime64"}
KnownTags == UnsignedTags \cup SignedTags \cup FloatTags \cup StringTags \cup TimeTags

\* Tags the engine reports that createValueSlice does not name.
OtherTags == {"Nullable(String)", "Nullable(UInt32)"}

\* The zero value of time.Time; any other time is a number of seconds since
\* 1970-01-01 00:00:00 UTC that falls in January 1970.
ZeroTime == -1

\* A decode target new(T): a non-nil pointer to the zero value of T.
NewTarget(gotype) ==
    [isNil |-> FALSE, gotype |-> gotype,
     num |-> IF gotype = "time.Time" THEN ZeroTime ELSE 0, str |-> <<>>]

GoTypeOfAllString(tag) == "string"

GoTypeOfUntypedDefault(tag) ==
    CASE tag = "UInt8" -> "uint8"
      [] tag = "UInt16" -> "uint16"
      [] tag = "UInt32" -> "uint32"
      [] tag = "UInt64" -> "uint64"
      [] tag = "Int8" -> "int8"
      [] tag = "Int16" -> "int16"
      [] tag = "Int32" -> "int32"
      [] tag = "Int64" -> "int64"
      [] tag = "Float32" -> "float32"
      [] tag = "Float64" -> "float64"
      [] tag \in {"String", "FixedString"} -> "string"
      [] tag \in {"Date", "DateTime", "DateTime64"} -> "time.Time"
      [] OTHER -> "interface{}"

\* The switch of createValueSlice on colType.DatabaseTypeName().
GoTypeOf(tag) ==
    CASE tag = "UInt8" -> "uint8"
      [] tag = "UInt16" -> "uint16"
      [] tag = "UInt32" -> "uint32"
      [] tag = "UInt64" -> "uint64"
      [] tag = "Int8" -> "int8"
      [] tag = "Int16" -> "int16"
      [] tag = "Int32" -> "int32"
      [] tag = "Int64" -> "int64"
      [] tag = "Float32" -> "float32"
      [] tag = "Float64" -> "float64"
      [] tag \in {"String", "FixedString"} -> "string"
      [] tag \in {"Date", "DateTime", "DateTime64"} -> "time.Time"
      [] OTHER -> "string"

createValueSlice(columnTypes) ==
    [i \in 1..Len(columnTypes) |-> NewTarget(GoTypeOf(columnTypes[i].type))]

\* The kind of wire value a decode target accepts.
KindOfGoType(gotype) ==
    CASE gotype \in {"uint8", "uint16", "uint32", "uint64",
                     "int8", "int16", "int32", "int64"} -> "int"
      [] gotype \in {"float32", "float64"} -> "float"
      [] gotype = "time.Time" -> "time"
      [] OTHER -> "string"

\* rows.Scan(values...) of the driver for one row.  A value is stored through
\* the pointer of its target when the target's type accepts it and the scan
\* fails otherwise.  A null leaves its target untouched, or fails the scan
\* (nullScanErr): the driver never replaces a target by nil.
ScanFails(row, values, nullScanErr) ==
    \E i \in 1..Len(row) :
        \/ row[i].kind = "null" /\ nullScanErr
        \/ row[i].kind # "null" /\ row[i].kind # KindOfGoType(values[i].gotype)

Scan(row, values) ==
    [i \in 1..Len(row) |->
        IF row[i].kind = "null" THEN values[i]
        ELSE [values[i] EXCEPT !.num = row[i].num, !.str = row[i].str]]

Pad2(n) == IF n < 10 THEN <<"0">> \o FormatNat(n) ELSE FormatNat(n)

\* time.Time.Format("2006-01-02 15:04:05")
FormatTime(t) ==
    IF t = ZeroTime
    THEN <<"0","0","0","1","-","0","1","-","0","1"," ","0","0",":","0","0",":","0","0">>
    ELSE <<"1","9","7","0","-","0","1","-">> \o Pad2(1 + (t \div 86400))
         \o <<" ">> \o Pad2((t % 86400) \div 3600)
         \o <<":">> \o Pad2((t % 3600) \div 60)
         \o <<":">> \o Pad2(t % 60)

\* fmt.Sprintf("%g", f) for a float given in tenths, of small magnitude
FormatFloat(tenths) ==
    LET mag == IF tenths < 0 THEN -tenths ELSE tenths
        sign == IF tenths < 0 THEN <<"-">> ELSE <<>>
    IN  IF mag % 10 = 0 THEN sign \o FormatNat(mag \div 10)
        ELSE sign \o FormatNat(mag \div 10) \o <<".">> \o FormatNat(mag % 10)

txtNULL == <<"N","U","L","L">>

\* The pointer types the type switch of convertValuesToStrings names.
StringifierCases ==
    {"uint8", "uint16", "uint32", "uint64", "int8", "int16", "int32", "int64",
     "float32", "float64", "string", "time.Time"}

\* The branch of convertValuesToStrings a value takes: the nil check, the
\* case of its pointer type, or the default branch.
stringifierCase(val) ==
    IF val.isNil THEN "nil"
    ELSE IF val.gotype \in StringifierCases THEN val.gotype
    ELSE "default"

\* fmt.Sprintf("%v", val) of a pointer: its address.
txtAddress == <<"0","x","c","0","0","0">>

\* One iteration of convertValuesToStrings.
convertValue(val) ==
    IF val.isNil THEN txtNULL
    ELSE CASE stringifierCase(val) = "default" -> txtAddress
           [] KindOfGoType(val.gotype) = "int" -> FormatInt(val.num)
           [] KindOfGoType(val.gotype) = "float" -> FormatFloat(val.num)
           [] val.gotype = "string" -> val.str
           [] val.gotype = "time.Time" -> FormatTime(val.num)

convertValuesToStrings(values) ==
    [i \in 1..Len(values) |-> convertValue(values[i])]

sepColumn == <<" ","|"," ">>
txtQueryResults == <<"Q","u","e","r","y"," ","R","e","s","u","l","t","s",":">>
txtNoRows == <<"N","o"," ","r","o","w","s"," ","r","e","t","u","r","n","e","d",".">>
txtTotalRows == <<"T","o","t","a","l"," ","r","o","w","s",":"," ">>
txtLimitedTo == <<" ","(","l","i","m","i","t","e","d"," ","t","o"," ">>

RenderFailedWithPartialText == [ok |-> FALSE, lines |-> <<txtQueryResults>>, ran |-> TRUE]

\* return "", fmt.Errorf(...)
RenderFailed == [ok |-> FALSE, lines |-> <<>>, ran |-> TRUE]

SummaryLimitedWhenOver(rowCount, n) ==
    IF rowCount = 0 THEN <<txtNoRows>>
    ELSE << <<>>,
            txtTotalRows \o FormatInt(rowCount)
                \o (IF rowCount > n THEN txtLimitedTo \o FormatInt(n) \o <<")">>
                    ELSE <<>>) >>

\* The summary formatQueryResults writes after the loop.
Summary(rowCount, n) ==
    IF rowCount = 0 THEN <<txtNoRows>>
    ELSE << <<>>,
            txtTotalRows \o FormatInt(rowCount)
                \o (IF rowCount >= n THEN txtLimitedTo \o FormatInt(n) \o <<")">>
                    ELSE <<>>) >>

stopAfterLimitOffByOne(rowCount, n) == rowCount > n

\* The loop's break condition.
stopAfterLimit(rowCount, n) == rowCount >= n

RECURSIVE renderRows(_, _, _, _, _)
\* The loop of formatQueryResults from row `next` on, with rowCount rows
\* written to lines so far, and what follows the loop.
renderRows(rows, n, next, rowCount, lines) ==
    IF next <= Len(rows.rows) /\ ~stopAfterLimit(rowCount, n)
    THEN LET values == createValueSlice(rows.cols)
         IN  IF ScanFails(rows.rows[next], values, rows.nullScanErr)
             THEN RenderFailed
             ELSE renderRows(rows, n, next + 1, rowCount + 1,
                    Append(lines,
                        Join(convertValuesToStrings(Scan(rows.rows[next], values)),
                             sepColumn)))
    ELSE IF rows.err THEN RenderFailed
    ELSE [ok |-> TRUE, lines |-> lines \o Summary(rowCount, n), ran |-> TRUE]

separatorRulePerColumn(columnNames) == Repeat("-", Len(columnNames))

\* strings.Repeat("-", len(strings.Join(columnNames, " | ")))
separatorRule(columnNames) == Repeat("-", Len(Join(columnNames, sepColumn)))

\* The text is given as its lines, each of which the code ends with "\n".
formatQueryResults(rows, n) ==
    LET columnNames == [i \in 1..Len(rows.cols) |-> rows.cols[i].name]
    IN  renderRows(rows, n, 1, 0,
            <<txtQueryResults, <<>>, Join(columnNames, sepColumn),
              separatorRule(columnNames)>>)

----------------------------------------------------------------------------
(* Inputs. *)

\* A second statement after a semicolon, and one behind a comment.
fragSecondStatement == <<";"," ","D","R","O","P"," ","t">>
fragCommentThenStatement == <<" ","/","*","x","*","/",";","D","R","O","P"," ","t">>

\* Pieces of query text; a query is a concatenation of up to MaxFrags of them.
Fragments == <<
    fragSecondStatement,
    fragCommentThenStatement,
    <<" ">>,
    <<"\n", "\t">>,
    kwSELECT,
    <<"s","e","l","e","c","t">>,
    <<"S","h","o","w">>,
    <<"d","e","s","c","r","i","b","e">>,
    <<"S","E","L">>,
    <<"D","R","O","P">>,
    <<"D","E","L","E","T","E">>,
    <<"I","N","S","E","R","T">>,
    <<"U","P","D","A","T","E">>,
    <<"C","R","E","A","T","E">>,
    <<"A","L","T","E","R">>,
    <<" ","F","R","O","M"," ","t">>,
    <<" ","l","i","m","i","t"," ","5">>,
    <<" ","L","I","M","I","T"," ","9">>,
    <<";">> >>

\* The pieces the handler's query argument is built from.
HandlerFragments == <<
    fragSecondStatement,
    fragCommentThenStatement,
    <<" ">>,
    kwSELECT,
    <<"S","h","o","w">>,
    <<"D","E","L","E","T","E">>,
    <<" ","F","R","O","M"," ","t">>,
    <<" ","l","i","m","i","t"," ","5">>,
    <<" ","L","I","M","I","T"," ","9">>,
    <<" ","1">> >>

RECURSIVE Concat(_, _)
Concat(pool, idx) ==
    IF idx = <<>> THEN <<>> ELSE pool[Head(idx)] \o Concat(pool, Tail(idx))

QueryTexts(pool) ==
    { Concat(pool, idx) :
        idx \in UNION { [1..k -> 1..Len(pool)] : k \in 0..MaxFrags } }

Absent == [kind |-> "absent", tenths |-> 0]
NotANumber == [kind |-> "other", tenths |-> 0]
Number(t) == [kind |-> "float", tenths |-> t]
Beyond(sign) == [kind |-> "beyond", tenths |-> sign]

\* Values of args["limit"]: absent, of a type other than float64, a float64
\* given in tenths, or a float64 whose magnitude is beyond the range of int.
LimitArgs ==
    {Absent, NotANumber, Beyond(1), Beyond(-1), Number(-100), Number(500),
     Number(505), Number(20000)}
    \cup { Number(t) : t \in (-LimitSpan)..LimitSpan }
    \cup { Number(t) : t \in (maxCHLimit * 10 - LimitSpan)..(maxCHLimit * 10 + LimitSpan) }

\* The limit arguments the handler is invoked with.
HandlerLimitArgs ==
    {Absent, Number(10), Number(25), Number(20000), Beyond(1)}

\* The build targets that matter for a limit argument: they differ only in
\* the conversion of a float64 beyond the range of int.
ArchsFor(rawLimit) == IF rawLimit.kind = "beyond" THEN Archs ELSE {"amd64"}

IntCell(n) == [kind |-> "int", num |-> n, str |-> <<>>]
FloatCell(tenths) == [kind |-> "float", num |-> tenths, str |-> <<>>]
StrCell(s) == [kind |-> "string", num |-> 0, str |-> s]
TimeCell(secs) == [kind |-> "time", num |-> secs, str |-> <<>>]
NullCell == [kind |-> "null", num |-> 0, str |-> <<>>]

Col(name, type) == [name |-> name, type |-> type]

\* Result sets: the columns of a table and the rows a query may draw from it.
Tables == <<
    [cols |-> <<Col(<<"i","d">>, "UInt32"), Col(<<"n","a","m","e">>, "String")>>,
     pool |-> {<<IntCell(1), StrCell(<<"a">>)>>, <<IntCell(2), StrCell(<<"b">>)>>,
               <<IntCell(3), StrCell(<<"c">>)>>}],
    [cols |-> <<Col(<<"n">>, "Nullable(String)")>>,
     pool |-> {<<StrCell(<<"x">>)>>, <<NullCell>>}],
    [cols |-> <<Col(<<"t","s">>, "DateTime"), Col(<<"f">>, "Float64"),
                Col(<<"k">>, "Int8")>>,
     pool |-> {<<TimeCell(90061), FloatCell(15), IntCell(-7)>>,
               <<TimeCell(0), FloatCell(-20), IntCell(0)>>}],
    [cols |-> <<Col(<<"u">>, "Nullable(UInt32)"), Col(<<"s">>, "String")>>,
     pool |-> {<<NullCell, StrCell(<<"y">>)>>, <<IntCell(4), StrCell(<<"y">>)>>}] >>

HasNull(rs) == \E i \in 1..Len(rs) : \E j \in 1..Len(rs[i]) : rs[i][j].kind = "null"

\* The cursors conn.Query may return: up to MaxRows rows of one table, whether
\* rows.Err() reports an error once the loop is over, and how the driver
\* scans a null.
CursorsOf(tables) ==
    UNION { { [cols |-> tables[t].cols, rows |-> rs, err |-> e,
               nullScanErr |-> ne, open |-> TRUE] :
                e \in BOOLEAN,
                ne \in (IF HasNull(rs) THEN BOOLEAN ELSE {FALSE}) } :
            <<t, rs>> \in UNION { {t} \X UNION { [1..k -> tables[t].pool] : k \in 0..MaxRows } : t \in DOMAIN tables } }

Cursors == CursorsOf(Tables)

\* The cursors the handler's query may produce.
HandlerCursors == CursorsOf(SubSeq(Tables, 1, 2))

NoDatabase == [arg |-> <<>>, env |-> <<>>]
NoText == [kind |-> "absent", text |-> <<>>]
NoCursor == [cols |-> <<>>, rows |-> <<>>, err |-> FALSE, nullScanErr |-> FALSE,
             open |-> FALSE]
NoRender == [ok |-> FALSE, lines |-> <<>>, ran |-> FALSE]
NoResult == [isError |-> FALSE, text |-> <<>>, message |-> "", set |-> FALSE]

----------------------------------------------------------------------------
(* The safety classifier on its own. *)

InitClassifier ==
    /\ pc = "classify"
    /\ queryArg \in { [kind |-> "string", text |-> q] : q \in QueryTexts(Fragments) }
    /\ arch = "amd64"
    /\ limitArg = Absent
    /\ haveConfig = FALSE
    /\ safe = "none"
    /\ limit = 0
    /\ relimit = 0
    /\ submitted = <<>>
    /\ resubmitted = <<>>
    /\ cursor = NoCursor
    /\ rendered = NoRender
    /\ conn = "none"
    /\ rowsState = "none"
    /\ events = <<>>
    /\ result = NoResult
    /\ tool = "clickhouse-query"
    /\ dbArgs = NoDatabase
    /\ valueSlice = <<>>
    /\ stringSlice = <<>>
    /\ calls = <<>>
    /\ handles = <<>>

Classify ==
    /\ pc = "classify"
    /\ safe' = isQuerySafe(queryArg.text)
    /\ pc' = "classified"
    /\ UNCHANGED <<tool, dbArgs, dispatchVars, concurrentVars, arch, queryArg, limitArg, haveConfig, limit, relimit,
                   submitted, resubmitted, cursor, rendered, conn, rowsState,
                   events, result>>

NextClassifier == Classify

SpecClassifier == InitClassifier /\ [][NextClassifier]_vars

----------------------------------------------------------------------------
(* The limit resolver on its own, applied once and then to its own output. *)

InitLimit ==
    /\ pc = "parse"
    /\ arch \in Archs
    /\ limitArg \in LimitArgs
    /\ queryArg = NoText
    /\ haveConfig = FALSE
    /\ safe = "none"
    /\ limit = 0
    /\ relimit = 0
    /\ submitted = <<>>
    /\ resubmitted = <<>>
    /\ cursor = NoCursor
    /\ rendered = NoRender
    /\ conn = "none"
    /\ rowsState = "none"
    /\ events = <<>>
    /\ result = NoResult
    /\ tool = "clickhouse-query"
    /\ dbArgs = NoDatabase
    /\ valueSlice = <<>>
    /\ stringSlice = <<>>
    /\ calls = <<>>
    /\ handles = <<>>

ParseLimit ==
    /\ pc = "parse"
    /\ limit' = parseClickHouseLimit(limitArg)
    /\ pc' = "parsed"
    /\ UNCHANGED <<tool, dbArgs, dispatchVars, concurrentVars, arch, queryArg, limitArg, haveConfig, safe, relimit,
                   submitted, resubmitted, cursor, rendered, conn, rowsState,
                   events, result>>

ReparseLimit ==
    /\ pc = "parsed"
    /\ relimit' = parseClickHouseLimit(IntToFloat(limit))
    /\ pc' = "reparsed"
    /\ UNCHANGED <<tool, dbArgs, dispatchVars, concurrentVars, arch, queryArg, limitArg, haveConfig, safe, limit,
                   submitted, resubmitted, cursor, rendered, conn, rowsState,
                   events, result>>

NextLimit == ParseLimit \/ ReparseLimit

SpecLimit == InitLimit /\ [][NextLimit]_vars

----------------------------------------------------------------------------
(* The rewrite on its own, applied once and then to its own output. *)

InitRewrite ==
    /\ pc = "rewrite"
    /\ limitArg \in HandlerLimitArgs
    /\ arch \in ArchsFor(limitArg)
    /\ limit = parseClickHouseLimit(limitArg)
    /\ queryArg \in { [kind |-> "string", text |-> q] : q \in QueryTexts(Fragments) }
    /\ haveConfig = FALSE
    /\ safe = "none"
    /\ relimit = 0
    /\ submitted = <<>>
    /\ resubmitted = <<>>
    /\ cursor = NoCursor
    /\ rendered = NoRender
    /\ conn = "none"
    /\ rowsState = "none"
    /\ events = <<>>
    /\ result = NoResult
    /\ tool = "clickhouse-query"
    /\ dbArgs = NoDatabase
    /\ valueSlice = <<>>
    /\ stringSlice = <<>>
    /\ calls = <<>>
    /\ handles = <<>>

Rewrite ==
    /\ pc = "rewrite"
    /\ submitted' = rewriteQuery(queryArg.text, limit)
    /\ pc' = "rewritten"
    /\ UNCHANGED <<tool, dbArgs, dispatchVars, concurrentVars, arch, queryArg, limitArg, haveConfig, safe, limit, relimit,
                   resubmitted, cursor, rendered, conn, rowsState, events,
                   result>>

RewriteAgain ==
    /\ pc = "rewritten"
    /\ resubmitted' = rewriteQuery(submitted, limit)
    /\ pc' = "rewrittenTwice"
    /\ UNCHANGED <<tool, dbArgs, dispatchVars, concurrentVars, arch, queryArg, limitArg, haveConfig, safe, limit, relimit,
                   submitted, cursor, rendered, conn, rowsState, events,
                   result>>

NextRewrite == Rewrite \/ RewriteAgain

SpecRewrite == InitRewrite /\ [][NextRewrite]_vars

----------------------------------------------------------------------------
(* The result materializer on its own. *)

InitRender ==
    /\ pc = "render"
    /\ limitArg \in HandlerLimitArgs
    /\ arch \in ArchsFor(limitArg)
    /\ limit = parseClickHouseLimit(limitArg)
    /\ cursor \in Cursors
    /\ queryArg = NoText
    /\ haveConfig = FALSE
    /\ safe = "none"
    /\ relimit = 0
    /\ submitted = <<>>
    /\ resubmitted = <<>>
    /\ rendered = NoRender
    /\ conn = "none"
    /\ rowsState = "none"
    /\ events = <<>>
    /\ result = NoResult
    /\ tool = "clickhouse-query"
    /\ dbArgs = NoDatabase
    /\ valueSlice = <<>>
    /\ stringSlice = <<>>
    /\ calls = <<>>
    /\ handles = <<>>

Render ==
    /\ pc = "render"
    /\ rendered' = formatQueryResults(cursor, limit)
    /\ pc' = "renderedOut"
    /\ UNCHANGED <<tool, dbArgs, dispatchVars, concurrentVars, arch, queryArg, limitArg, haveConfig, safe, limit, relimit,
                   submitted, resubmitted, cursor, conn, rowsState, events,
                   result>>

NextRender == Render

SpecRender == InitRender /\ [][NextRender]_vars

----------------------------------------------------------------------------
(* The type dispatch on its own: createValueSlice, one rows.Scan, and       *)
(* convertValuesToStrings for the columns of one result set.                *)

\* Type tags the engine may report for a column.
DispatchTags ==
    KnownTags \cup OtherTags \cup {"FixedString(16)", "DateTime64(3)", "Bool"}

ColumnLists ==
    UNION { [1..n -> { Col(<<"c">>, tag) : tag \in DispatchTags }] : n \in 0..MaxCols }

\* A value of each wire kind.
SampleCell(kind) ==
    CASE kind = "int" -> IntCell(7)
      [] kind = "float" -> FloatCell(15)
      [] kind = "time" -> TimeCell(61)
      [] OTHER -> StrCell(<<"a">>)

\* The rows that scan into the targets: each cell is a null or a value of
\* the kind its target accepts.
ScannableRows(values) ==
    { row \in [1..Len(values) -> {NullCell} \cup { SampleCell(k) : k \in {"int", "float", "time", "string"} }] :
        ~ScanFails(row, values, FALSE) }

InitDispatch ==
    /\ pc = "create"
    /\ \E cols \in ColumnLists : cursor = [NoCursor EXCEPT !.cols = cols]
    /\ valueSlice = <<>>
    /\ stringSlice = <<>>
    /\ arch \in {"amd64"}
    /\ limitArg = Absent
    /\ limit = defaultCHLimit
    /\ queryArg = NoText
    /\ haveConfig = FALSE
    /\ safe = "none"
    /\ relimit = 0
    /\ submitted = <<>>
    /\ resubmitted = <<>>
    /\ rendered = NoRender
    /\ conn = "none"
    /\ rowsState = "none"
    /\ events = <<>>
    /\ result = NoResult
    /\ tool = "clickhouse-query"
    /\ dbArgs = NoDatabase
    /\ calls = <<>>
    /\ handles = <<>>

\* values := createValueSlice(columnTypes)
CreateValueSlice ==
    /\ pc = "create"
    /\ valueSlice' = createValueSlice(cursor.cols)
    /\ pc' = "scan"
    /\ UNCHANGED <<tool, dbArgs, stringSlice, concurrentVars, arch, queryArg,
                   limitArg, haveConfig, safe, limit, relimit, submitted,
                   resubmitted, cursor, rendered, conn, rowsState, events,
                   result>>

\* rows.Scan(values...) that succeeds
ScanRow ==
    /\ pc = "scan"
    /\ \E row \in ScannableRows(valueSlice) :
          /\ valueSlice' = Scan(row, valueSlice)
          /\ cursor' = [cursor EXCEPT !.rows = <<row>>]
    /\ pc' = "convert"
    /\ UNCHANGED <<tool, dbArgs, stringSlice, concurrentVars, arch, queryArg,
                   limitArg, haveConfig, safe, limit, relimit, submitted,
                   resubmitted, rendered, conn, rowsState, events, result>>

\* stringValues := convertValuesToStrings(values)
ConvertValues ==
    /\ pc = "convert"
    /\ stringSlice' = convertValuesToStrings(valueSlice)
    /\ pc' = "converted"
    /\ UNCHANGED <<tool, dbArgs, valueSlice, concurrentVars, arch, queryArg,
                   limitArg, haveConfig, safe, limit, relimit, submitted,
                   resubmitted, cursor, rendered, conn, rowsState, events,
                   result>>

NextDispatch == CreateValueSlice \/ ScanRow \/ ConvertValues

SpecDispatch == InitDispatch /\ [][NextDispatch]_vars

----------------------------------------------------------------------------
(* The tool handlers: one invocation of one of the three ClickHouse tools. *)

errorResult(message) == [isError |-> TRUE, text |-> <<>>, message |-> message, set |-> TRUE]
successResult(content) == [isError |-> FALSE, text |-> content, message |-> "", set |-> TRUE]

Tools == {"clickhouse-query", "clickhouse-schemas", "clickhouse-tables"}

txtShowDatabases == <<"S","H","O","W"," ","D","A","T","A","B","A","S","E","S">>
txtShowTablesFrom == <<"S","H","O","W"," ","T","A","B","L","E","S"," ","F","R","O","M"," ">>
defaultCHDatabase == <<"d","e","f","a","u","l","t">>

\* The values of args["database"] (<<>>: absent, not a string or empty) and of
\* config.Database of the clickhouse-tables invocations.
DatabaseArgs ==
    { [arg |-> a, env |-> e] :
        a \in { <<>>, <<"d","b">>, <<"d","b",";","D","R","O","P"," ","t">> },
        e \in { defaultCHDatabase, <<"l","o","g","s">> } }

\* clickHouseTablesHandler, lines 144-147
databaseOf(d) == IF d.arg # <<>> THEN d.arg ELSE d.env

\* The query text a handler passes to executeQuery.
handlerQuery(t, text, d) ==
    CASE t = "clickhouse-query" -> text
      [] t = "clickhouse-schemas" -> txtShowDatabases
      [] t = "clickhouse-tables" -> txtShowTablesFrom \o databaseOf(d)

\* The limit a handler passes to executeQuery.
handlerLimit(t, rawLimit) ==
    IF t = "clickhouse-query" THEN parseClickHouseLimit(rawLimit) ELSE maxCHLimit

\* The error result of a handler whose executeQuery failed.
executionError(t) ==
    CASE t = "clickhouse-query" -> errorResult("ExecutionFailed")
      [] t = "clickhouse-schemas" -> errorResult("ListDatabasesFailed")
      [] t = "clickhouse-tables" -> errorResult("ListTablesFailed")

Init ==
    /\ pc = "start"
    /\ tool \in Tools
    /\ queryArg \in
        IF tool = "clickhouse-query"
        THEN {[kind |-> "absent", text |-> <<>>], [kind |-> "other", text |-> <<>>]}
             \cup { [kind |-> "string", text |-> q] : q \in QueryTexts(HandlerFragments) }
        ELSE {NoText}
    /\ limitArg \in (IF tool = "clickhouse-query" THEN HandlerLimitArgs ELSE {Absent})
    /\ arch \in ArchsFor(limitArg)
    /\ dbArgs \in (IF tool = "clickhouse-tables" THEN DatabaseArgs ELSE {NoDatabase})
    /\ haveConfig \in BOOLEAN
    /\ safe = "none"
    /\ limit = 0
    /\ relimit = 0
    /\ submitted = <<>>
    /\ resubmitted = <<>>
    /\ cursor = NoCursor
    /\ rendered = NoRender
    /\ conn = "none"
    /\ rowsState = "none"
    /\ events = <<>>
    /\ result = NoResult
    /\ valueSlice = <<>>
    /\ stringSlice = <<>>
    /\ calls = <<>>
    /\ handles = <<>>

\* clickHouseQueryHandler, lines 88-102: the checks that precede the connection.
Validate ==
    /\ pc = "start"
    /\ tool = "clickhouse-query"
    /\ IF queryArg.kind # "string" \/ TrimSpace(queryArg.text) = <<>>
       THEN /\ result' = errorResult("QueryRequired")
            /\ pc' = "done"
            /\ UNCHANGED <<safe, limit>>
       ELSE IF ~isQuerySafe(queryArg.text)
       THEN /\ safe' = FALSE
            /\ result' = errorResult("UnsafeQuery")
            /\ pc' = "done"
            /\ UNCHANGED limit
       ELSE IF ~haveConfig
       THEN /\ safe' = TRUE
            /\ result' = errorResult("ConfigMissing")
            /\ pc' = "done"
            /\ UNCHANGED limit
       ELSE /\ safe' = TRUE
            /\ limit' = handlerLimit(tool, limitArg)
            /\ pc' = "open"
            /\ UNCHANGED result
    /\ UNCHANGED <<tool, dbArgs, dispatchVars, concurrentVars, arch, queryArg, limitArg, haveConfig, relimit, submitted,
                   resubmitted, cursor, rendered, conn, rowsState, events>>

\* clickHouseSchemasHandler and clickHouseTablesHandler up to the connection:
\* the configuration is the only check.
ValidateListing ==
    /\ pc = "start"
    /\ tool # "clickhouse-query"
    /\ IF ~haveConfig
       THEN /\ result' = errorResult("ConfigMissing")
            /\ pc' = "done"
            /\ UNCHANGED limit
       ELSE /\ limit' = handlerLimit(tool, limitArg)
            /\ pc' = "open"
            /\ UNCHANGED result
    /\ UNCHANGED <<tool, dbArgs, dispatchVars, concurrentVars, arch, queryArg, limitArg, haveConfig, safe, relimit,
                   submitted, resubmitted, cursor, rendered, conn, rowsState,
                   events>>

\* connectToClickHouse, clickhouse.Open: it fails or yields a connection.
Open ==
    /\ pc = "open"
    /\ events' = Append(events, "Open")
    /\ \E ok \in BOOLEAN :
        IF ok
        THEN /\ conn' = "open"
             /\ pc' = "ping"
             /\ UNCHANGED result
        ELSE /\ result' = errorResult("ConnectFailed")
             /\ pc' = "done"
             /\ UNCHANGED conn
    /\ UNCHANGED <<tool, dbArgs, dispatchVars, concurrentVars, arch, queryArg, limitArg, haveConfig, safe, limit, relimit,
                   submitted, resubmitted, cursor, rendered, rowsState>>

PingLeaks ==
    /\ pc = "ping"
    /\ events' = Append(events, "Ping")
    /\ \E ok \in BOOLEAN :
        IF ok
        THEN /\ pc' = "query"
             /\ UNCHANGED result
        ELSE /\ result' = errorResult("ConnectFailed")
             /\ pc' = "done"
    /\ UNCHANGED <<tool, dbArgs, dispatchVars, concurrentVars, arch, queryArg,
                   limitArg, haveConfig, safe, limit, relimit, submitted,
                   resubmitted, cursor, rendered, rowsState, conn>>

\* connectToClickHouse, conn.Ping: a failed ping closes the connection.
Ping ==
    /\ pc = "ping"
    /\ \E ok \in BOOLEAN :
        IF ok
        THEN /\ events' = Append(events, "Ping")
             /\ pc' = "query"
             /\ UNCHANGED <<conn, result>>
        ELSE /\ events' = events \o <<"Ping", "ConnClose">>
             /\ conn' = "closed"
             /\ result' = errorResult("ConnectFailed")
             /\ pc' = "done"
    /\ UNCHANGED <<tool, dbArgs, dispatchVars, concurrentVars, arch, queryArg, limitArg, haveConfig, safe, limit, relimit,
                   submitted, resubmitted, cursor, rendered, rowsState>>

\* executeQuery up to conn.Query: the rewrite and the submission, which
\* fails or yields a cursor.
Query ==
    /\ pc = "query"
    /\ submitted' = rewriteQuery(handlerQuery(tool, queryArg.text, dbArgs), limit)
    /\ events' = Append(events, "Query")
    /\ \/ /\ result' = executionError(tool)
          /\ pc' = "return"
          /\ UNCHANGED <<cursor, rowsState>>
       \/ /\ cursor' \in HandlerCursors
          /\ rowsState' = "open"
          /\ pc' = "format"
          /\ UNCHANGED result
    /\ UNCHANGED <<tool, dbArgs, dispatchVars, concurrentVars, arch, queryArg, limitArg, haveConfig, safe, limit, relimit,
                   resubmitted, rendered, conn>>

\* executeQuery from formatQueryResults on: the render, the deferred
\* rows.Close() and the handler's result.
Format ==
    /\ pc = "format"
    /\ rendered' = formatQueryResults(cursor, limit)
    /\ rowsState' = "closed"
    /\ events' = Append(events, "RowsClose")
    /\ result' = IF rendered'.ok THEN successResult(rendered'.lines)
                 ELSE executionError(tool)
    /\ pc' = "return"
    /\ UNCHANGED <<tool, dbArgs, dispatchVars, concurrentVars, arch, queryArg, limitArg, haveConfig, safe, limit, relimit,
                   submitted, resubmitted, cursor, conn>>

\* The handler returns: the deferred conn.Close() runs.
Return ==
    /\ pc = "return"
    /\ conn' = "closed"
    /\ events' = Append(events, "ConnClose")
    /\ pc' = "done"
    /\ UNCHANGED <<tool, dbArgs, dispatchVars, concurrentVars, arch, queryArg, limitArg, haveConfig, safe, limit, relimit,
                   submitted, resubmitted, cursor, rendered, rowsState, result>>

Next == Validate \/ ValidateListing \/ Open \/ Ping \/ Query \/ Format \/ Return

Spec == Init /\ [][Next]_vars

----------------------------------------------------------------------------
(* Vocabulary of the properties, written without the operators above. *)

AllowedKeywords == {kwSELECT, kwSHOW, kwDESCRIBE}

UnsafeWords ==
    { <<"D","R","O","P">>, <<"D","E","L","E","T","E">>, <<"I","N","S","E","R","T">>,
      <<"U","P","D","A","T","E">>, <<"C","R","E","A","T","E">>, <<"A","L","T","E","R">> }

\* c is the letter u in either case
IsLetter(c, u) ==
    c = u \/ \E i \in 1..26 : LowerCase[i] = c /\ UpperCase[i] = u

\* the word kw, in any letter case, occupies positions k+1.. of q
WordAt(q, k, kw) ==
    /\ Len(q) >= k + Len(kw)
    /\ \A j \in 1..Len(kw) : IsLetter(q[k + j], kw[j])

\* q is some whitespace followed by one of the words kws
StartsWithWord(q, kws) ==
    \E k \in 0..Len(q) :
        /\ \A i \in 1..k : q[i] \in {" ", "\t", "\n", "\r"}
        /\ \E kw \in kws : WordAt(q, k, kw)

HasWord(q, kw) == \E k \in 0..Len(q) : WordAt(q, k, kw)

\* the number of places of q at which the word kw stands
WordCount(q, kw) == Cardinality({ k \in 0..Len(q) : WordAt(q, k, kw) })

RECURSIVE DecimalValue(_)
DecimalValue(d) ==
    IF d = <<>> THEN 0
    ELSE 10 * DecimalValue(SubSeq(d, 1, Len(d) - 1))
         + (CHOOSE v \in 0..9 : DigitChars[v + 1] = d[Len(d)])

\* d is the decimal numeral of the natural number n
IsDecimalOf(d, n) ==
    /\ d # <<>>
    /\ \A i \in 1..Len(d) : \E v \in 0..9 : DigitChars[v + 1] = d[i]
    /\ Len(d) > 1 => d[1] # "0"
    /\ DecimalValue(d) = n

\* d is the decimal numeral of the integer n
IsNumeralOf(d, n) ==
    IF n < 0 THEN d # <<>> /\ d[1] = "-" /\ IsDecimalOf(Tail(d), -n)
    ELSE IsDecimalOf(d, n)

Min(a, b) == IF a < b THEN a ELSE b

\* the lines of a rendered table between the separator rule and the summary
DataLines(lines) ==
    IF lines[Len(lines)] = txtNoRows
    THEN SubSeq(lines, 5, Len(lines) - 1)
    ELSE SubSeq(lines, 5, Len(lines) - 2)

RECURSIVE SplitFields(_)
\* the fields of a line whose values are joined by " | "
SplitFields(line) ==
    IF \E k \in 0..(Len(line) - 3) : SubSeq(line, k + 1, k + 3) = sepColumn
    THEN LET k == CHOOSE k \in 0..(Len(line) - 3) :
                    /\ SubSeq(line, k + 1, k + 3) = sepColumn
                    /\ \A m \in 0..(k - 1) : SubSeq(line, m + 1, m + 3) # sepColumn
         IN  <<SubSeq(line, 1, k)>> \o SplitFields(SubSeq(line, k + 4, Len(line)))
    ELSE <<line>>

----------------------------------------------------------------------------
(* C1: isQuerySafe returns true exactly for the texts that, after leading   *)
(* whitespace, start with SELECT, SHOW or DESCRIBE in any letter case; it   *)
(* returns false for every other text, such as one that starts with DROP,   *)
(* DELETE, INSERT, UPDATE, CREATE or ALTER, and always returns a boolean.   *)
C1_SafeIffAllowedPrefix ==
    pc = "classified" =>
        /\ safe \in BOOLEAN
        /\ safe = StartsWithWord(queryArg.text, AllowedKeywords)
        /\ \A w \in UnsafeWords : WordAt(queryArg.text, 0, w) => safe = FALSE

C1_Witness ==
    /\ pc = "classified"
    /\ queryArg.text = <<" ", "s","e","l","e","c","t">>
    /\ safe = TRUE

(* C2: an invocation whose query fails the classifier makes no driver call: *)
(* no connection is opened, pinged or queried, nothing is submitted, and    *)
(* the invocation ends with an error result.                                *)
C2_UnsafeNeverConnects ==
    (queryArg.kind = "string" /\ ~StartsWithWord(queryArg.text, AllowedKeywords)) =>
        /\ events = <<>>
        /\ conn = "none"
        /\ rowsState = "none"
        /\ submitted = <<>>
        /\ pc \in {"start", "done"}
        /\ pc = "done" => result.set /\ result.isError

C2_Witness ==
    /\ pc = "done"
    /\ haveConfig
    /\ queryArg.text = <<"D","E","L","E","T","E"," ","F","R","O","M"," ","t">>
    /\ result.isError
    /\ result.message = "UnsafeQuery"
    /\ events = <<>>

\* what the claim C3 expects of parseClickHouseLimit
ExpectedLimit(rawLimit) ==
    CASE rawLimit.kind \in {"absent", "other"} -> defaultCHLimit
      [] rawLimit.kind = "beyond" -> IF rawLimit.tenths > 0 THEN maxCHLimit ELSE 1
      [] rawLimit.kind = "float" ->
            IF rawLimit.tenths < 10 THEN 1
            ELSE IF rawLimit.tenths > maxCHLimit * 10 THEN maxCHLimit
            ELSE CHOOSE n \in 1..maxCHLimit :
                    n * 10 <= rawLimit.tenths /\ rawLimit.tenths < (n + 1) * 10

(* C3: parseClickHouseLimit returns the default 100 for an absent or        *)
(* non-numeric argument and, for a numeric one, the value truncated to an   *)
(* integer and clamped to [1, 1000]: 1 below 1, 1000 above 1000.            *)
C3_LimitTruncatedAndClamped ==
    pc \in {"parsed", "reparsed"} => limit = ExpectedLimit(limitArg)

(* C4: parseClickHouseLimit applied to its own result, passed back as the   *)
(* raw limit argument, returns that result.                                 *)
C4_LimitIdempotent ==
    pc = "reparsed" => relimit = limit

C4_Witness ==
    /\ pc = "reparsed"
    /\ limitArg = Number(20000)
    /\ limit = maxCHLimit
    /\ relimit = maxCHLimit

(* C5: the rewrite appends exactly one " LIMIT <limit>" clause, with the    *)
(* resolved limit, to a SELECT query that contains no LIMIT in any letter   *)
(* case; it leaves a SELECT query that contains LIMIT and every non-SELECT  *)
(* query unchanged; and it changes nothing when applied to its own output.  *)
C5_RewriteAppendsOneLimit ==
    LET q == queryArg.text
        isSelect == StartsWithWord(q, {kwSELECT})
    IN  /\ pc \in {"rewritten", "rewrittenTwice"} =>
            /\ (isSelect /\ ~HasWord(q, kwLIMIT)) =>
                    /\ Len(submitted) > Len(q) + Len(sepLIMIT)
                    /\ SubSeq(submitted, 1, Len(q)) = q
                    /\ SubSeq(submitted, Len(q) + 1, Len(q) + Len(sepLIMIT)) = sepLIMIT
                    /\ IsDecimalOf(SubSeq(submitted, Len(q) + Len(sepLIMIT) + 1,
                                          Len(submitted)), limit)
                    /\ WordCount(submitted, kwLIMIT) = 1
            /\ (isSelect /\ HasWord(q, kwLIMIT)) => submitted = q
            /\ ~isSelect => submitted = q
        /\ pc = "rewrittenTwice" => resubmitted = submitted

C5_Witness ==
    /\ pc = "rewrittenTwice"
    /\ queryArg.text = <<"s","e","l","e","c","t"," ","F","R","O","M"," ","t">>
    /\ limit = 2
    /\ submitted = queryArg.text \o <<" ","L","I","M","I","T"," ","2">>
    /\ resubmitted = submitted

(* C6: a successful render has at most `limit` data lines, whatever the     *)
(* number of rows of the cursor.                                            *)
C6_DataLinesWithinLimit ==
    (rendered.ran /\ rendered.ok) => Len(DataLines(rendered.lines)) <= limit

C6_Witness ==
    /\ pc = "renderedOut"
    /\ rendered.ok
    /\ Len(cursor.rows) > limit
    /\ Len(DataLines(rendered.lines)) = limit

\* the number of rows a successful render emits
EmittedRows == Min(limit, Len(cursor.rows))

(* C7: a successful render of zero rows ends with "No rows returned." right *)
(* after the header and the separator and has no "Total rows" line; one of  *)
(* N > 0 rows ends with "Total rows: N", followed by " (limited to L)"      *)
(* exactly when N equals the limit L.                                       *)
C7_SummaryLine ==
    (pc = "renderedOut" /\ rendered.ok) =>
        LET lines == rendered.lines
            last == lines[Len(lines)]
            rest == SubSeq(last, Len(txtTotalRows) + 1, Len(last))
        IN  IF EmittedRows = 0
            THEN /\ Len(lines) = 5
                 /\ last = txtNoRows
                 /\ \A i \in 1..Len(lines) : ~HasPrefix(lines[i], txtTotalRows)
            ELSE /\ Len(lines) = 4 + EmittedRows + 2
                 /\ last # txtNoRows
                 /\ HasPrefix(last, txtTotalRows)
                 /\ IF EmittedRows = limit
                    THEN \E k \in 1..Len(rest) :
                            /\ Len(rest) >= k + Len(txtLimitedTo) + 2
                            /\ IsDecimalOf(SubSeq(rest, 1, k), EmittedRows)
                            /\ SubSeq(rest, k + 1, k + Len(txtLimitedTo)) = txtLimitedTo
                            /\ IsDecimalOf(SubSeq(rest, k + Len(txtLimitedTo) + 1,
                                                  Len(rest) - 1), limit)
                            /\ rest[Len(rest)] = ")"
                    ELSE IsDecimalOf(rest, EmittedRows)

C7_Witness ==
    /\ pc = "renderedOut"
    /\ rendered.ok
    /\ limit = 2
    /\ Len(cursor.rows) = 2
    /\ rendered.lines[Len(rendered.lines)] =
          txtTotalRows \o <<"2">> \o txtLimitedTo \o <<"2", ")">>

\* every value of the emitted rows that is not a null has the type its
\* decode target accepts, and the cursor reports no error
ScansButForNulls ==
    /\ ~cursor.err
    /\ \A i \in 1..EmittedRows : \A j \in 1..Len(cursor.cols) :
          cursor.rows[i][j].kind \in
              {"null", KindOfGoType(GoTypeOf(cursor.cols[j].type))}

(* C8: a row whose column holds a null is rendered, and the field of that   *)
(* column is the literal NULL, whatever the column's declared type.         *)
C8_NullRendersAsNULL ==
    (pc = "renderedOut" /\ ScansButForNulls) =>
        /\ rendered.ok
        /\ \A i \in 1..EmittedRows : \A j \in 1..Len(cursor.cols) :
              cursor.rows[i][j].kind = "null" =>
                  SplitFields(DataLines(rendered.lines)[i])[j] = txtNULL

\* the text Go prints for the float and time values of Tables
PrintedText(cell) ==
    CASE cell = TimeCell(90061) ->
            <<"1","9","7","0","-","0","1","-","0","2"," ","0","1",":","0","1",":","0","1">>
      [] cell = TimeCell(0) ->
            <<"1","9","7","0","-","0","1","-","0","1"," ","0","0",":","0","0",":","0","0">>
      [] cell = FloatCell(15) -> <<"1",".","5">>
      [] cell = FloatCell(-20) -> <<"-","2">>

IsTextOf(text, cell) ==
    CASE cell.kind = "int" -> IsNumeralOf(text, cell.num)
      [] cell.kind = "string" -> text = cell.str
      [] OTHER -> text = PrintedText(cell)

ExampleRows ==
    << <<IntCell(1), StrCell(<<"a">>)>>, <<IntCell(2), StrCell(<<"b">>)>>,
       <<IntCell(3), StrCell(<<"c">>)>> >>

ExampleText ==
    << txtQueryResults,
       <<>>,
       <<"i","d"," ","|"," ","n","a","m","e">>,
       <<"-","-","-","-","-","-","-","-","-">>,
       <<"1"," ","|"," ","a">>,
       <<"2"," ","|"," ","b">>,
       <<>>,
       <<"T","o","t","a","l"," ","r","o","w","s",":"," ","2"," ",
         "(","l","i","m","i","t","e","d"," ","t","o"," ","2",")">> >>

(* C9: a successful render is the line "Query Results:", an empty line, the *)
(* column names joined by " | ", a rule of "-" as long as the header line,  *)
(* one line for each of the first min(limit, cursor length) rows in cursor  *)
(* order with its values joined by " | ", and then the summary; columns id, *)
(* name with rows (1,a),(2,b),(3,c) and limit 2 give the spec's example.    *)
C9_RenderedLayout ==
    (pc = "renderedOut" /\ rendered.ok) =>
        LET lines == rendered.lines
            summary == SubSeq(lines, 5 + EmittedRows, Len(lines))
        IN  /\ Len(lines) >= 5 + EmittedRows
            /\ lines[1] = txtQueryResults
            /\ lines[2] = <<>>
            /\ SplitFields(lines[3]) = [j \in 1..Len(cursor.cols) |-> cursor.cols[j].name]
            /\ Len(lines[4]) = Len(lines[3])
            /\ \A k \in 1..Len(lines[4]) : lines[4][k] = "-"
            /\ \A i \in 1..EmittedRows :
                  LET fields == SplitFields(lines[4 + i])
                  IN  /\ Len(fields) = Len(cursor.cols)
                      /\ \A j \in 1..Len(cursor.cols) :
                            cursor.rows[i][j].kind # "null" =>
                                IsTextOf(fields[j], cursor.rows[i][j])
            /\ \/ summary = <<txtNoRows>>
               \/ /\ Len(summary) = 2
                  /\ summary[1] = <<>>
                  /\ HasPrefix(summary[2], txtTotalRows)
            /\ (cursor.cols = Tables[1].cols /\ cursor.rows = ExampleRows /\ limit = 2)
                  => lines = ExampleText

C9_Witness ==
    /\ pc = "renderedOut"
    /\ rendered.ok
    /\ limit = 2
    /\ cursor.rows = ExampleRows
    /\ rendered.lines = ExampleText

(* C10: the text of every successful clickhouse-query result has at most as *)
(* many data rows as the resolved limit, which is at most 1000, also when   *)
(* the query carries its own larger LIMIT clause and is not rewritten.      *)
C10_ResultRowsWithinLimit ==
    (result.set /\ ~result.isError) =>
        /\ limit \in 1..1000
        /\ Len(DataLines(result.text)) <= limit
        /\ Len(DataLines(result.text)) <= Len(cursor.rows)

C10_Witness ==
    /\ pc = "done"
    /\ result.set
    /\ ~result.isError
    /\ queryArg.text = kwSELECT \o <<" ","L","I","M","I","T"," ","9">>
    /\ submitted = queryArg.text
    /\ Len(cursor.rows) > limit
    /\ Len(DataLines(result.text)) = limit

\* q holds a second statement: text other than whitespace after a semicolon
IsMultiStatement(q) ==
    \E k \in 1..Len(q) :
        /\ q[k] = ";"
        /\ \E m \in (k + 1)..Len(q) : q[m] \notin {" ", "\t", "\n", "\r"}

\* q holds a comment
HasComment(q) ==
    \E k \in 1..(Len(q) - 1) :
        SubSeq(q, k, k + 1) \in { <<"/", "*">>, <<"-", "-">> }

(* C11: a query text that holds a second statement, with or without a      *)
(* comment in front of it, is not accepted by isQuerySafe and is never      *)
(* submitted to the database.                                               *)
C11_MultiStatementRejected ==
    (/\ queryArg.kind = "string"
     /\ IsMultiStatement(queryArg.text) \/ (HasComment(queryArg.text) /\ IsMultiStatement(queryArg.text)))
        => /\ pc # "start" => (pc = "done" /\ result.isError)
           /\ submitted = <<>>
           /\ \A i \in 1..Len(events) : events[i] # "Query"

----------------------------------------------------------------------------
(* Concurrent invocations: the MCP server runs each tool call in its own    *)
(* goroutine; every handler step is a step of one call, and the steps of    *)
(* different calls interleave freely.                                       *)

CallIds == 1..NumCalls

\* The arguments of a concurrent call.
CallInputs ==
    { [tool |-> "clickhouse-query",
       query |-> [kind |-> "string", text |-> <<" ">> \o kwSELECT], db |-> NoDatabase],
      [tool |-> "clickhouse-query",
       query |-> [kind |-> "string", text |-> fragSecondStatement], db |-> NoDatabase],
      [tool |-> "clickhouse-schemas", query |-> NoText, db |-> NoDatabase],
      [tool |-> "clickhouse-tables", query |-> NoText,
       db |-> [arg |-> <<"d","b">>, env |-> defaultCHDatabase]] }

\* The cursors the database answers a concurrent call's query with.
CallCursors ==
    { [cols |-> Tables[1].cols, rows |-> << <<IntCell(1), StrCell(<<"a">>)>> >>,
       err |-> FALSE, nullScanErr |-> FALSE, open |-> TRUE],
      [cols |-> Tables[2].cols, rows |-> << <<StrCell(<<"x">>)>> >>,
       err |-> TRUE, nullScanErr |-> FALSE, open |-> TRUE] }

NoAnswers == [open |-> "unasked", ping |-> "unasked", query |-> "unasked",
              cursor |-> NoCursor]

\* A handle of the driver: its state, the calls that used it and the number
\* of times it was closed.
NoHandle == [state |-> "none", users |-> {}, closes |-> 0, cursor |-> NoCursor]

frameOfShared(i) == 1

\* Where a call keeps conn (clickHouse*Handler) and rows (executeQuery): they
\* are local variables, so each call has its own.
frameOf(i) == i

\* the connection and the cursor call i holds: the call whose Open or Query
\* made it, 0 for none
connOf(i) == calls[frameOf(i)].conn
rowsOf(i) == calls[frameOf(i)].rows

use(h, i) == [h EXCEPT !.users = @ \cup {i}]
close(h, i) == [h EXCEPT !.users = @ \cup {i}, !.closes = @ + 1, !.state = "closed"]

InitConcurrent ==
    /\ pc = "concurrent"
    /\ haveConfig \in BOOLEAN
    /\ \E ins \in [CallIds -> CallInputs] :
        calls = [i \in CallIds |->
                    [pc |-> "start", tool |-> ins[i].tool, query |-> ins[i].query,
                     db |-> ins[i].db, limit |-> 0, submitted |-> <<>>,
                     conn |-> 0, rows |-> 0, answers |-> NoAnswers,
                     result |-> NoResult]]
    /\ handles = [i \in CallIds |-> [conn |-> NoHandle, rows |-> NoHandle]]
    /\ arch = "amd64"
    /\ limitArg = Absent
    /\ queryArg = NoText
    /\ dbArgs = NoDatabase
    /\ tool = "clickhouse-query"
    /\ safe = "none"
    /\ limit = 0
    /\ relimit = 0
    /\ submitted = <<>>
    /\ resubmitted = <<>>
    /\ cursor = NoCursor
    /\ rendered = NoRender
    /\ conn = "none"
    /\ rowsState = "none"
    /\ events = <<>>
    /\ result = NoResult
    /\ valueSlice = <<>>
    /\ stringSlice = <<>>

\* The checks of a handler that precede the connection.
CallValidate(i) ==
    LET c == calls[i]
    IN  /\ c.pc = "start"
        /\ calls' =
            IF c.tool = "clickhouse-query"
               /\ (c.query.kind # "string" \/ TrimSpace(c.query.text) = <<>>)
            THEN [calls EXCEPT ![i].pc = "done", ![i].result = errorResult("QueryRequired")]
            ELSE IF c.tool = "clickhouse-query" /\ ~isQuerySafe(c.query.text)
            THEN [calls EXCEPT ![i].pc = "done", ![i].result = errorResult("UnsafeQuery")]
            ELSE IF ~haveConfig
            THEN [calls EXCEPT ![i].pc = "done", ![i].result = errorResult("ConfigMissing")]
            ELSE [calls EXCEPT ![i].pc = "open", ![i].limit = handlerLimit(c.tool, limitArg)]
        /\ UNCHANGED <<handles, pipelineVars, dispatchVars>>

\* clickhouse.Open: it fails or makes a connection, which the call keeps.
CallOpen(i) ==
    /\ calls[i].pc = "open"
    /\ \E ok \in BOOLEAN :
        IF ok
        THEN /\ handles' = [handles EXCEPT ![i].conn = [NoHandle EXCEPT !.state = "open"]]
             /\ calls' = [calls EXCEPT ![i].pc = "ping", ![i].answers.open = "ok",
                                       ![frameOf(i)].conn = i]
        ELSE /\ calls' = [calls EXCEPT ![i].pc = "done", ![i].answers.open = "fail",
                                       ![i].result = errorResult("ConnectFailed")]
             /\ UNCHANGED handles
    /\ UNCHANGED <<pipelineVars, dispatchVars>>

\* conn.Ping on the connection the call holds; a closed connection fails.
CallPing(i) ==
    /\ calls[i].pc = "ping"
    /\ \E ok \in BOOLEAN :
        IF ok /\ handles[connOf(i)].conn.state = "open"
        THEN /\ handles' = [handles EXCEPT ![connOf(i)].conn = use(@, i)]
             /\ calls' = [calls EXCEPT ![i].pc = "query", ![i].answers.ping = "ok"]
        ELSE /\ handles' = [handles EXCEPT ![connOf(i)].conn = close(@, i)]
             /\ calls' = [calls EXCEPT ![i].pc = "done",
                                       ![i].answers.ping = IF ok THEN "ok" ELSE "fail",
                                       ![i].result = errorResult("ConnectFailed")]
    /\ UNCHANGED <<pipelineVars, dispatchVars>>

\* executeQuery up to conn.Query on the connection the call holds.
CallQuery(i) ==
    LET c == calls[i]
        text == rewriteQuery(handlerQuery(c.tool, c.query.text, c.db), c.limit)
    IN  /\ c.pc = "query"
        /\ \/ /\ handles' = [handles EXCEPT ![connOf(i)].conn = use(@, i)]
              /\ calls' = [calls EXCEPT ![i].pc = "return", ![i].submitted = text,
                                        ![i].answers.query = "fail",
                                        ![i].result = executionError(c.tool)]
           \/ \E rs \in CallCursors :
                IF handles[connOf(i)].conn.state = "open"
                THEN /\ handles' = [handles EXCEPT
                                       ![connOf(i)].conn = use(@, i),
                                       ![i].rows = [NoHandle EXCEPT !.state = "open",
                                                                    !.cursor = rs]]
                     /\ calls' = [calls EXCEPT ![i].pc = "format", ![i].submitted = text,
                                               ![i].answers.query = "ok",
                                               ![i].answers.cursor = rs,
                                               ![frameOf(i)].rows = i]
                ELSE /\ handles' = [handles EXCEPT ![connOf(i)].conn = use(@, i)]
                     /\ calls' = [calls EXCEPT ![i].pc = "return", ![i].submitted = text,
                                               ![i].answers.query = "ok",
                                               ![i].answers.cursor = rs,
                                               ![i].result = executionError(c.tool)]
        /\ UNCHANGED <<pipelineVars, dispatchVars>>

\* formatQueryResults on the cursor the call holds, then the deferred
\* rows.Close(); a closed cursor delivers no row and reports an error.
CallFormat(i) ==
    LET c == calls[i]
        h == handles[rowsOf(i)].rows
        rs == IF h.state = "open" THEN h.cursor
              ELSE [h.cursor EXCEPT !.rows = <<>>, !.err = TRUE]
        r == formatQueryResults(rs, c.limit)
    IN  /\ c.pc = "format"
        /\ handles' = [handles EXCEPT ![rowsOf(i)].rows = close(@, i)]
        /\ calls' = [calls EXCEPT ![i].pc = "return",
                                  ![i].result = IF r.ok THEN successResult(r.lines)
                                                ELSE executionError(c.tool)]
        /\ UNCHANGED <<pipelineVars, dispatchVars>>

\* The handler returns: the deferred conn.Close() runs.
CallReturn(i) ==
    /\ calls[i].pc = "return"
    /\ handles' = [handles EXCEPT ![connOf(i)].conn = close(@, i)]
    /\ calls' = [calls EXCEPT ![i].pc = "done"]
    /\ UNCHANGED <<pipelineVars, dispatchVars>>

NextConcurrent ==
    \E i \in CallIds :
        \/ CallValidate(i)
        \/ CallOpen(i)
        \/ CallPing(i)
        \/ CallQuery(i)
        \/ CallFormat(i)
        \/ CallReturn(i)

SpecConcurrent == InitConcurrent /\ [][NextConcurrent]_vars

----------------------------------------------------------------------------
(* Vocabulary of the properties of the handlers. *)

\* the number of times the driver call e was made
Count(e) == Cardinality({ i \in 1..Len(events) : events[i] = e })

\* the position of the first call e, 0 when it was not made
FirstIndex(e) ==
    IF Count(e) = 0 THEN 0
    ELSE CHOOSE i \in 1..Len(events) :
            events[i] = e /\ \A k \in 1..(i - 1) : events[k] # e

(* C12: when a handler has returned, a connection that was opened has been  *)
(* closed exactly once and a cursor that was opened has been closed exactly *)
(* once, the cursor before its connection; nothing is closed that was not   *)
(* opened; after a failed ping the connection is closed and the handler     *)
(* ends with an error without having queried.                               *)
C12_ReleasedExactlyOnce ==
    /\ Count("ConnClose") <= 1
    /\ Count("RowsClose") <= 1
    /\ conn = "none" => Count("ConnClose") = 0
    /\ rowsState = "none" => Count("RowsClose") = 0
    /\ rowsState # "none" => conn # "none"
    /\ pc = "done" =>
        /\ conn # "none" => (conn = "closed" /\ Count("ConnClose") = 1)
        /\ rowsState # "none" =>
              /\ rowsState = "closed"
              /\ Count("RowsClose") = 1
              /\ FirstIndex("RowsClose") < FirstIndex("ConnClose")
        /\ (conn # "none" /\ Count("Query") = 0) =>
              /\ events = <<"Open", "Ping", "ConnClose">>
              /\ result.isError
              /\ cursor = NoCursor

C12_Witness ==
    /\ pc = "done"
    /\ tool = "clickhouse-tables"
    /\ rendered.ran
    /\ ~rendered.ok
    /\ events = <<"Open", "Ping", "Query", "RowsClose", "ConnClose">>

C12_WitnessPingFailure ==
    /\ pc = "done"
    /\ events = <<"Open", "Ping", "ConnClose">>
    /\ conn = "closed"

\* some row the loop reaches cannot be scanned
SomeScanFails ==
    \E i \in 1..EmittedRows : \E j \in 1..Len(cursor.cols) :
        \/ cursor.rows[i][j].kind = "null" /\ cursor.nullScanErr
        \/ cursor.rows[i][j].kind \notin
              {"null", KindOfGoType(GoTypeOf(cursor.cols[j].type))}

C13_State ==
    /\ Count("Open") <= 1 /\ Count("Ping") <= 1 /\ Count("Query") <= 1
    /\ rendered.ran =>
          /\ rendered.ok = ~(SomeScanFails \/ cursor.err)
          /\ ~rendered.ok => rendered.lines = <<>>
    /\ result.set =>
          /\ result.isError = ~(rendered.ran /\ rendered.ok)
          /\ result.isError => (result.text = <<>> /\ result.message # "")
    /\ pc = "done" => result.set

(* C13: a render in which a scan fails or rows.Err() reports an error, also *)
(* after the loop stopped at the limit, fails and returns no text; every    *)
(* path of a handler other than a successful render ends in one error       *)
(* result with the error flag set, which never changes once it is set, and  *)
(* no driver call is made twice.                                            *)
C13_FailuresReportedOnce ==
    /\ []C13_State
    /\ [][result.set => result' = result]_vars

C13_Witness ==
    /\ pc = "done"
    /\ cursor.err
    /\ Len(cursor.rows) > limit
    /\ ~SomeScanFails
    /\ result.isError
    /\ result.message = "ExecutionFailed"
    /\ Count("Query") = 1

(* C16: every query text a handler submits starts, after leading            *)
(* whitespace, with SELECT, SHOW or DESCRIBE: the query handler's text with *)
(* or without the appended LIMIT, "SHOW DATABASES" of the schemas handler,  *)
(* and "SHOW TABLES FROM <database>" of the tables handler for the database *)
(* argument or, without one, the configured database.                       *)
C16_SubmittedIsSafe ==
    Count("Query") > 0 =>
        /\ isQuerySafe(submitted)
        /\ StartsWithWord(submitted, AllowedKeywords)
        /\ tool = "clickhouse-query" => SubSeq(submitted, 1, Len(queryArg.text)) = queryArg.text
        /\ tool = "clickhouse-schemas" => submitted = txtShowDatabases
        /\ tool = "clickhouse-tables" =>
              submitted = txtShowTablesFrom
                            \o (IF dbArgs.arg = <<>> THEN dbArgs.env ELSE dbArgs.arg)

C16_Witness ==
    /\ Count("Query") = 1
    /\ tool = "clickhouse-tables"
    /\ dbArgs.arg = <<"d","b",";","D","R","O","P"," ","t">>
    /\ submitted = txtShowTablesFrom \o dbArgs.arg

C16_WitnessRewritten ==
    /\ Count("Query") = 1
    /\ tool = "clickhouse-query"
    /\ submitted = <<" ">> \o kwSELECT \o sepLIMIT \o <<"1","0","0">>

\* the decode target the dispatch is to give each named tag
TargetTable ==
    { <<"UInt8", "uint8">>, <<"UInt16", "uint16">>, <<"UInt32", "uint32">>,
      <<"UInt64", "uint64">>, <<"Int8", "int8">>, <<"Int16", "int16">>,
      <<"Int32", "int32">>, <<"Int64", "int64">>, <<"Float32", "float32">>,
      <<"Float64", "float64">>, <<"String", "string">>,
      <<"FixedString", "string">>, <<"Date", "time.Time">>,
      <<"DateTime", "time.Time">>, <<"DateTime64", "time.Time">> }

NamedTags == { p[1] : p \in TargetTable }

(* C15: once createValueSlice has run there is one non-nil decode target    *)
(* per column; a column whose tag is one of the fifteen named tags has the  *)
(* target of that tag and every other column has a string target; each      *)
(* target, before and after a scan, takes a typed case of the stringifier,  *)
(* never the nil branch or the default branch, and the stringifier returns  *)
(* one text per column.                                                     *)
C15_TargetsByTagNoFallback ==
    /\ pc # "create" =>
        /\ Len(valueSlice) = Len(cursor.cols)
        /\ \A i \in 1..Len(valueSlice) :
            /\ ~valueSlice[i].isNil
            /\ IF cursor.cols[i].type \in NamedTags
               THEN <<cursor.cols[i].type, valueSlice[i].gotype>> \in TargetTable
               ELSE valueSlice[i].gotype = "string"
            /\ stringifierCase(valueSlice[i]) \notin {"nil", "default"}
    /\ pc = "converted" =>
        /\ Len(stringSlice) = Len(valueSlice)
        /\ \A i \in 1..Len(stringSlice) : stringSlice[i] # txtAddress

C15_Witness ==
    /\ pc = "converted"
    /\ Len(cursor.cols) = 2
    /\ cursor.cols[1].type = "Bool"
    /\ cursor.cols[2].type = "DateTime64"
    /\ valueSlice[1].gotype = "string"
    /\ valueSlice[2].gotype = "time.Time"
    /\ cursor.rows[1][1].kind = "string"
    /\ cursor.rows[1][2].kind = "time"
    /\ stringSlice = << <<"a">>, FormatTime(61) >>

\* the result of a handler that runs with nothing else: a function of its
\* arguments, the environment and the answers of the database
aloneResult(c) ==
    IF c.tool = "clickhouse-query"
       /\ (c.query.kind # "string" \/ TrimSpace(c.query.text) = <<>>)
    THEN errorResult("QueryRequired")
    ELSE IF c.tool = "clickhouse-query" /\ ~StartsWithWord(c.query.text, AllowedKeywords)
    THEN errorResult("UnsafeQuery")
    ELSE IF ~haveConfig THEN errorResult("ConfigMissing")
    ELSE IF c.answers.open # "ok" \/ c.answers.ping # "ok"
    THEN errorResult("ConnectFailed")
    ELSE IF c.answers.query # "ok" THEN executionError(c.tool)
    ELSE LET r == formatQueryResults(c.answers.cursor,
                     IF c.tool = "clickhouse-query" THEN defaultCHLimit ELSE maxCHLimit)
         IN  IF r.ok THEN successResult(r.lines) ELSE executionError(c.tool)

(* C14: of invocations that run concurrently, each holds the connection its *)
(* own Open made and the cursor its own Query made, no connection or cursor *)
(* is used or closed by a call other than the one that made it or closed    *)
(* twice, and a call that has returned has the result it has when it runs   *)
(* alone with the same arguments, environment and database answers.         *)
C14_CallsIndependent ==
    pc = "concurrent" =>
        \A i \in CallIds :
            /\ calls[i].conn \in {0, i}
            /\ calls[i].rows \in {0, i}
            /\ handles[i].conn.users \subseteq {i}
            /\ handles[i].rows.users \subseteq {i}
            /\ handles[i].conn.closes <= 1
            /\ handles[i].rows.closes <= 1
            /\ calls[i].answers.open = "ok" => calls[i].conn = i
            /\ (calls[i].answers.query = "ok" /\ calls[i].answers.ping = "ok")
                  => calls[i].rows = i
            /\ calls[i].pc = "done" =>
                  /\ calls[i].result = aloneResult(calls[i])
                  /\ handles[i].conn.state # "open"
                  /\ handles[i].rows.state # "open"

\* two calls were in flight at once, each with a connection of its own, one
\* of them was overtaken by the other, and they ended with different results
C14_Witness ==
    /\ pc = "concurrent"
    /\ calls[1].pc = "done"
    /\ calls[2].pc = "format"
    /\ calls[1].tool = "clickhouse-query"
    /\ calls[2].tool = "clickhouse-tables"
    /\ ~calls[1].result.isError
    /\ handles[1].conn.state = "closed"
    /\ handles[2].conn.state = "open"
    /\ handles[2].rows.state = "open"
    /\ handles[1].rows.users = {1}
    /\ handles[2].conn.users = {2}

====
